---- MODULE Spec2Model ----
(***************************************************************************)
(* Expression compiler and vectorized evaluator of                         *)
(* src/src/execution/expression.rs.                                        *)
(*                                                                         *)
(* A logical expression (Expr) is compiled against a schema into a         *)
(* RuntimeExpr: either a Compiled closure with its static type or an       *)
(* AggregateFunction descriptor.  A closure is modelled by the data it     *)
(* captures (a column index, or the two compiled operands and the kernel   *)
(* it was built with); calling it is the operator Call.                    *)
(***************************************************************************)
EXTENDS Integers, Sequences, FiniteSets, TLC

VARIABLES
    overflow_checks,  \* build profile: TRUE when integer overflow panics
    expr,             \* the logical expression last handed to compile_expr
    input_schema,     \* the schema it was compiled against
    compiled,         \* what compile_expr returned (or how it aborted)
    batch,            \* the batch of the last invocation
    result,           \* what the last invocation returned (or how it aborted)
    last              \* the operation that produced this state

vars == <<overflow_checks, expr, input_schema, compiled, batch, result, last>>

(***************************************************************************)
(* Bounds of the model.                                                    *)
(***************************************************************************)
MaxRows == 2      \* a batch has at most MaxRows rows
MaxArgs == 2      \* an aggregate call has at most MaxArgs arguments
RepeatRows == 1   \* a batch of a repeated invocation has at most RepeatRows rows

(***************************************************************************)
(* Result<T>: Ok, the two ExecutionError kinds the file builds, the        *)
(* ArrowError converted by `?`, and a panic (the call does not return).    *)
(***************************************************************************)
Ok(v) == [tag |-> "Ok", val |-> v]

NotImplemented == [tag |-> "Err", err |-> "NotImplemented"]

General(msg) == [tag |-> "Err", err |-> "General", msg |-> msg]

ArrowError(e) == [tag |-> "Err", err |-> "ArrowError", msg |-> e]

Panic(why) == [tag |-> "Panic", why |-> why]

(***************************************************************************)
(* Data types and operators.                                               *)
(***************************************************************************)
SignedTypes == {"Int8", "Int16", "Int32", "Int64"}

UnsignedTypes == {"UInt8", "UInt16", "UInt32", "UInt64"}

FloatTypes == {"Float32", "Float64"}

NumericTypes == SignedTypes \cup UnsignedTypes \cup FloatTypes

DataType == NumericTypes \cup {"Boolean", "Utf8"}

ComparisonOperators == {"Eq", "NotEq", "Lt", "LtEq", "Gt", "GtEq"}

ArithmeticOperators == {"Plus", "Minus", "Multiply", "Divide"}

Operator == ComparisonOperators \cup ArithmeticOperators
                \cup {"Modulus", "And", "Or", "Not"}

AggregateType == {"Min", "Max", "Sum", "Count", "Avg"}

(***************************************************************************)
(* RuntimeExpr and the closures it holds.                                  *)
(***************************************************************************)
Compiled(f, t) == [variant |-> "Compiled", f |-> f, t |-> t]

AggregateFunction(f, args, t) ==
    [variant |-> "AggregateFunction", f |-> f, args |-> args, t |-> t]

\* the closure of a Column node: it captures the index
ColumnClosure(index) == [fn |-> "column", index |-> index]

\* the closure of a BinaryExpr node: it captures both compiled operands
BinaryClosure(macro, OP, left_expr, right_expr) ==
    [fn |-> macro, OP |-> OP, left_expr |-> left_expr, right_expr |-> right_expr]

\* RuntimeExpr::get_func: the closure of a Compiled, a panic otherwise
get_func(e) ==
    IF e.variant = "Compiled" THEN Ok(e.f) ELSE Panic("get_func")

\* RuntimeExpr::get_type
get_type(e) == e.t

(***************************************************************************)
(* String::to_lowercase.  A name is a sequence of one-character strings    *)
(* over the ASCII characters; every capital letter has its small letter,   *)
(* every other character is kept.                                          *)
(***************************************************************************)
UpperCase ==
    << "A", "B", "C", "D", "E", "F", "G", "H", "I", "J", "K", "L", "M",
       "N", "O", "P", "Q", "R", "S", "T", "U", "V", "W", "X", "Y", "Z" >>

LowerCase ==
    << "a", "b", "c", "d", "e", "f", "g", "h", "i", "j", "k", "l", "m",
       "n", "o", "p", "q", "r", "s", "t", "u", "v", "w", "x", "y", "z" >>

char_to_lowercase(c) ==
    IF \E i \in DOMAIN UpperCase : UpperCase[i] = c
    THEN LowerCase[CHOOSE i \in DOMAIN UpperCase : UpperCase[i] = c]
    ELSE c

to_lowercase(name) == [i \in DOMAIN name |-> char_to_lowercase(name[i])]

Str_min == <<"m", "i", "n">>

Str_max == <<"m", "a", "x">>

Str_count == <<"c", "o", "u", "n", "t">>

Str_sum == <<"s", "u", "m">>

Str_avg == <<"a", "v", "g">>

(***************************************************************************)
(* compile_expr, the aggregate arm: the name lookup.                       *)
(***************************************************************************)
\* the lookup with an arm for "avg"
aggregate_type_avg(name) ==
    LET l == to_lowercase(name) IN
    CASE l = Str_min -> Ok("Min")
      [] l = Str_max -> Ok("Max")
      [] l = Str_count -> Ok("Count")
      [] l = Str_sum -> Ok("Sum")
      [] l = Str_avg -> Ok("Avg")
      [] OTHER -> Panic("unimplemented")

\* match name.to_lowercase().as_ref() { "min" => .., _ => unimplemented!() }
aggregate_type(name) ==
    LET l == to_lowercase(name) IN
    CASE l = Str_min -> Ok("Min")
      [] l = Str_max -> Ok("Max")
      [] l = Str_count -> Ok("Count")
      [] l = Str_sum -> Ok("Sum")
      [] OTHER -> Panic("unimplemented")

(***************************************************************************)
(* compile_scalar_expr.                                                    *)
(***************************************************************************)
\* the arms with Minus handed the add kernel
binary_kernel_minus_as_add(op) ==
    CASE op = "Eq" -> "eq"
      [] op = "NotEq" -> "neq"
      [] op = "Lt" -> "lt"
      [] op = "LtEq" -> "lt_eq"
      [] op = "Gt" -> "gt"
      [] op = "GtEq" -> "gt_eq"
      [] op = "Plus" -> "add"
      [] op = "Minus" -> "add"
      [] op = "Multiply" -> "multiply"
      [] op = "Divide" -> "divide"

\* the arms with Gt handed the gt_eq kernel
binary_kernel_gt_as_gt_eq(op) ==
    CASE op = "Eq" -> "eq"
      [] op = "NotEq" -> "neq"
      [] op = "Lt" -> "lt"
      [] op = "LtEq" -> "lt_eq"
      [] op = "Gt" -> "gt_eq"
      [] op = "GtEq" -> "gt_eq"
      [] op = "Plus" -> "add"
      [] op = "Minus" -> "subtract"
      [] op = "Multiply" -> "multiply"
      [] op = "Divide" -> "divide"

\* the kernel of array_ops each operator arm passes to its macro
binary_kernel(op) ==
    CASE op = "Eq" -> "eq"
      [] op = "NotEq" -> "neq"
      [] op = "Lt" -> "lt"
      [] op = "LtEq" -> "lt_eq"
      [] op = "Gt" -> "gt"
      [] op = "GtEq" -> "gt_eq"
      [] op = "Plus" -> "add"
      [] op = "Minus" -> "subtract"
      [] op = "Multiply" -> "multiply"
      [] op = "Divide" -> "divide"

\* the arms of `match op` with And and Or compiled as the comparisons are
compile_operator_logical(op, left_expr, right_expr) ==
    LET op_type == get_type(left_expr) IN
    CASE op \in ComparisonOperators ->
            Ok(Compiled(BinaryClosure("comparison_ops", binary_kernel(op),
                                      left_expr, right_expr), "Boolean"))
      [] op \in {"And", "Or"} ->
            Ok(Compiled(BinaryClosure("comparison_ops", "eq",
                                      left_expr, right_expr), "Boolean"))
      [] op \in ArithmeticOperators ->
            Ok(Compiled(BinaryClosure("math_ops", binary_kernel(op),
                                      left_expr, right_expr), op_type))
      [] OTHER -> NotImplemented

\* the arms of `match op` with a comparison typed as its left operand
compile_operator_left_typed(op, left_expr, right_expr) ==
    LET op_type == get_type(left_expr) IN
    CASE op \in ComparisonOperators ->
            Ok(Compiled(BinaryClosure("comparison_ops", binary_kernel(op),
                                      left_expr, right_expr), op_type))
      [] op \in ArithmeticOperators ->
            Ok(Compiled(BinaryClosure("math_ops", binary_kernel(op),
                                      left_expr, right_expr), op_type))
      [] OTHER -> NotImplemented

\* let op_type = left_expr.get_type(); match op { .. }
compile_operator(op, left_expr, right_expr) ==
    LET op_type == get_type(left_expr) IN
    CASE op \in ComparisonOperators ->
            Ok(Compiled(BinaryClosure("comparison_ops", binary_kernel(op),
                                      left_expr, right_expr), "Boolean"))
      [] op \in ArithmeticOperators ->
            Ok(Compiled(BinaryClosure("math_ops", binary_kernel(op),
                                      left_expr, right_expr), op_type))
      [] OTHER -> NotImplemented

\* the arm of `match expr.as_ref()` under a Cast
compile_cast(inner) ==
    IF inner.kind \in {"Column", "Literal"}
    THEN NotImplemented
    ELSE General(<<"CAST not implemented for expression", inner>>)

RECURSIVE compile_scalar_expr(_, _)

\* a sub-expression that is an aggregate call is compiled as a descriptor
compile_scalar_expr_aggregating(e, schema) ==
    CASE e.kind = "Literal" -> NotImplemented
      [] e.kind = "Column" ->
            Ok(Compiled(ColumnClosure(e.index), schema[e.index + 1]))
      [] e.kind = "Cast" -> compile_cast(e.expr)
      [] e.kind = "BinaryExpr" ->
            LET left_expr == compile_scalar_expr(e.left, schema) IN
            IF left_expr.tag # "Ok" THEN left_expr ELSE
            LET right_expr == compile_scalar_expr(e.right, schema) IN
            IF right_expr.tag # "Ok" THEN right_expr ELSE
            compile_operator(e.op, left_expr.val, right_expr.val)
      [] e.kind = "AggregateFunction" ->
            Ok(AggregateFunction("Sum", <<>>, e.return_type))
      [] OTHER -> NotImplemented

compile_scalar_expr(e, schema) ==
    CASE e.kind = "Literal" -> NotImplemented
      [] e.kind = "Column" ->
            Ok(Compiled(ColumnClosure(e.index), schema[e.index + 1]))
      [] e.kind = "Cast" -> compile_cast(e.expr)
      [] e.kind = "BinaryExpr" ->
            LET left_expr == compile_scalar_expr(e.left, schema) IN
            IF left_expr.tag # "Ok" THEN left_expr ELSE
            LET right_expr == compile_scalar_expr(e.right, schema) IN
            IF right_expr.tag # "Ok" THEN right_expr ELSE
            compile_operator(e.op, left_expr.val, right_expr.val)
      [] OTHER -> NotImplemented

(***************************************************************************)
(* compile_expr.                                                           *)
(***************************************************************************)
\* args.iter().map(|e| compile_scalar_expr(..)).collect::<Result<Vec<_>>>():
\* the first error, or every compiled argument in order
RECURSIVE collect_compiled(_, _)
collect_compiled(args, schema) ==
    IF args = <<>> THEN Ok(<<>>) ELSE
    LET head == compile_scalar_expr(Head(args), schema) IN
    IF head.tag # "Ok" THEN head ELSE
    LET rest == collect_compiled(Tail(args), schema) IN
    IF rest.tag # "Ok" THEN rest ELSE Ok(<<head.val>> \o rest.val)

\* compiled_args?.iter().map(|e| e.get_func().clone()).collect()
collect_funcs(compiled_args) ==
    IF \E i \in DOMAIN compiled_args : get_func(compiled_args[i]).tag # "Ok"
    THEN Panic("get_func")
    ELSE Ok([i \in DOMAIN compiled_args |-> get_func(compiled_args[i]).val])

\* t: of the descriptor taken from the compiled argument
aggregate_result_type_of_argument(return_type, compiled_args) ==
    get_type(compiled_args[1])

\* t: return_type.clone()
aggregate_result_type(return_type, compiled_args) == return_type

\* assert_eq!(1, args.len())
arguments_checked(args) == Len(args) = 1

compile_expr(e, schema) ==
    IF e.kind = "AggregateFunction" THEN
        IF ~arguments_checked(e.args) THEN Panic("assert_eq") ELSE
        LET compiled_args == collect_compiled(e.args, schema)
            func == aggregate_type(e.name)
        IN  IF func.tag # "Ok" THEN func ELSE
            IF compiled_args.tag # "Ok" THEN compiled_args ELSE
            LET funcs == collect_funcs(compiled_args.val) IN
            IF funcs.tag # "Ok" THEN funcs ELSE
            Ok(AggregateFunction(func.val, funcs.val,
                   aggregate_result_type(e.return_type, compiled_args.val)))
    ELSE compile_scalar_expr(e, schema)

(***************************************************************************)
(* Columns and element values.  A column is its data type and its values;  *)
(* the model holds no null slots.  An element of an integer type is an     *)
(* integer of any size (a sign and a magnitude), so that the exact result  *)
(* of a native operator can be compared with the range of the type; an     *)
(* element of a float type is a binary floating-point value.  An element   *)
(* of Boolean is a truth value and an element of Utf8 a string.            *)
(***************************************************************************)
Column(data_type, values) == [data_type |-> data_type, values |-> values]

(***************************************************************************)
(* Magnitudes: natural numbers of any size, written in base 32768 (15      *)
(* bits to a digit), lowest digit first, without a zero at the high end.   *)
(***************************************************************************)
Max(a, b) == IF a >= b THEN a ELSE b

\* the magnitude of the natural number n
RECURSIVE Digits(_)
Digits(n) == IF n = 0 THEN <<>> ELSE <<n % 32768>> \o Digits(n \div 32768)

\* the digits of m without the zeros at the high end
RECURSIVE Trim(_)
Trim(m) ==
    IF m = <<>> \/ m[Len(m)] # 0 THEN m ELSE Trim(SubSeq(m, 1, Len(m) - 1))

Digit(m, i) == IF i <= Len(m) THEN m[i] ELSE 0

RECURSIVE AddFrom(_, _, _, _)
AddFrom(a, b, i, carry) ==
    IF i > Len(a) /\ i > Len(b)
    THEN IF carry = 0 THEN <<>> ELSE <<carry>>
    ELSE LET s == Digit(a, i) + Digit(b, i) + carry
         IN  <<s % 32768>> \o AddFrom(a, b, i + 1, s \div 32768)

\* a + b
MagAdd(a, b) == AddFrom(a, b, 1, 0)

RECURSIVE SubFrom(_, _, _, _)
SubFrom(a, b, i, borrow) ==
    IF i > Len(a) THEN <<>>
    ELSE LET d == a[i] - Digit(b, i) - borrow
         IN  <<d % 32768>> \o SubFrom(a, b, i + 1, IF d < 0 THEN 1 ELSE 0)

\* a - b, for a >= b
MagSub(a, b) == Trim(SubFrom(a, b, 1, 0))

RECURSIVE CmpFrom(_, _, _)
CmpFrom(a, b, i) ==
    IF i = 0 THEN 0
    ELSE IF a[i] < b[i] THEN -1
    ELSE IF a[i] > b[i] THEN 1
    ELSE CmpFrom(a, b, i - 1)

\* -1, 0 or 1 as a is below, equal to or above b
MagCmp(a, b) ==
    IF Len(a) < Len(b) THEN -1
    ELSE IF Len(a) > Len(b) THEN 1
    ELSE CmpFrom(a, b, Len(a))

RECURSIVE MulDigitFrom(_, _, _, _)
MulDigitFrom(a, d, i, carry) ==
    IF i > Len(a)
    THEN IF carry = 0 THEN <<>> ELSE <<carry>>
    ELSE LET p == a[i] * d + carry
         IN  <<p % 32768>> \o MulDigitFrom(a, d, i + 1, p \div 32768)

\* a * d, for a digit d
MagMulDigit(a, d) == IF d = 0 THEN <<>> ELSE MulDigitFrom(a, d, 1, 0)

\* a * 32768^k
ShiftDigits(a, k) == IF a = <<>> THEN <<>> ELSE [i \in 1..k |-> 0] \o a

RECURSIVE MulFrom(_, _, _)
MulFrom(a, b, j) ==
    IF j > Len(b) THEN <<>>
    ELSE MagAdd(ShiftDigits(MagMulDigit(a, b[j]), j - 1), MulFrom(a, b, j + 1))

\* a * b
MagMul(a, b) == MulFrom(a, b, 1)

\* a * 2^k
ShiftLeft(a, k) == ShiftDigits(MagMulDigit(a, 2 ^ (k % 15)), k \div 15)

\* 2^k
Pow2(k) == ShiftLeft(<<1>>, k)

RECURSIVE DivDigitFrom(_, _, _, _)
DivDigitFrom(a, d, i, rem) ==
    IF i = 0 THEN <<<<>>, rem>>
    ELSE LET cur == rem * 32768 + a[i]
             rest == DivDigitFrom(a, d, i - 1, cur % d)
         IN  <<Append(rest[1], cur \div d), rest[2]>>

\* the quotient and the remainder of a by a digit d > 0
MagDivDigit(a, d) ==
    LET qr == DivDigitFrom(a, d, Len(a), 0) IN <<Trim(qr[1]), qr[2]>>

\* a \div 2^k
ShiftRight(a, k) ==
    IF k \div 15 >= Len(a) THEN <<>>
    ELSE MagDivDigit(SubSeq(a, (k \div 15) + 1, Len(a)), 2 ^ (k % 15))[1]

\* the number of bits of a: the least n with a < 2^n
BitLen(a) ==
    IF a = <<>> THEN 0
    ELSE 15 * (Len(a) - 1)
           + (CHOOSE n \in 1..15 : 2 ^ (n - 1) <= a[Len(a)] /\ a[Len(a)] < 2 ^ n)

\* bit k of a, bit 0 the lowest
Bit(a, k) == (Digit(a, (k \div 15) + 1) \div (2 ^ (k % 15))) % 2

\* whether a bit of a below bit k is set
LowBitsSet(a, k) ==
    \/ \E i \in 1..(k \div 15) : Digit(a, i) # 0
    \/ Digit(a, (k \div 15) + 1) % (2 ^ (k % 15)) # 0

\* a % 2^k
LowBits(a, k) ==
    Trim([i \in 1..((k \div 15) + 1) |->
             IF i <= k \div 15 THEN Digit(a, i) ELSE Digit(a, i) % (2 ^ (k % 15))])

\* the number of zero bits below the lowest set bit of a # 0
TrailingZeros(a) ==
    LET i == CHOOSE j \in 1..Len(a) : a[j] # 0 /\ \A h \in 1..(j - 1) : a[h] = 0
    IN  15 * (i - 1)
          + (CHOOSE n \in 0..14 : a[i] % (2 ^ n) = 0 /\ a[i] % (2 ^ (n + 1)) # 0)

\* the greatest digit d in lo..hi with b * d <= a, where b * lo <= a
RECURSIVE QuotientDigit(_, _, _, _)
QuotientDigit(a, b, lo, hi) ==
    IF lo = hi THEN lo
    ELSE LET mid == (lo + hi + 1) \div 2
         IN  IF MagCmp(MagMulDigit(b, mid), a) <= 0
             THEN QuotientDigit(a, b, mid, hi)
             ELSE QuotientDigit(a, b, lo, mid - 1)

\* long division, one digit of a at a time from the high end: the remainder
\* so far takes the digit in, and gives up the multiple of b below it
RECURSIVE LongDivFrom(_, _, _, _)
LongDivFrom(a, b, i, rem) ==
    IF i = 0 THEN <<<<>>, rem>>
    ELSE LET cur == Trim(<<a[i]>> \o rem)
             d == IF MagCmp(cur, b) < 0 THEN 0
                  ELSE QuotientDigit(cur, b, 1, 32767)
             rest == LongDivFrom(a, b, i - 1, MagSub(cur, MagMulDigit(b, d)))
         IN  <<Append(rest[1], d), rest[2]>>

\* the quotient and the remainder of a by b, for b # 0
MagDivMod(a, b) ==
    IF Len(b) = 1
    THEN LET qr == MagDivDigit(a, b[1]) IN <<qr[1], Digits(qr[2])>>
    ELSE LET qr == LongDivFrom(a, b, Len(a), <<>>) IN <<Trim(qr[1]), qr[2]>>

(***************************************************************************)
(* Integers of any size.                                                   *)
(***************************************************************************)
ZMake(neg, mag) == [neg |-> neg /\ mag # <<>>, mag |-> mag]

\* the integer n
Z(n) ==
    IF n >= 0 THEN ZMake(FALSE, Digits(n))
    ELSE ZMake(TRUE, MagAdd(Digits(-(n + 1)), <<1>>))

ZNeg(a) == ZMake(~a.neg, a.mag)

ZAdd(a, b) ==
    IF a.neg = b.neg THEN ZMake(a.neg, MagAdd(a.mag, b.mag))
    ELSE IF MagCmp(a.mag, b.mag) >= 0 THEN ZMake(a.neg, MagSub(a.mag, b.mag))
    ELSE ZMake(b.neg, MagSub(b.mag, a.mag))

ZSub(a, b) == ZAdd(a, ZNeg(b))

ZMul(a, b) == ZMake(a.neg # b.neg, MagMul(a.mag, b.mag))

\* a / b truncated toward zero, for b # 0
ZTruncDiv(a, b) == ZMake(a.neg # b.neg, MagDivMod(a.mag, b.mag)[1])

\* -1, 0 or 1 as a is below, equal to or above b
ZCmp(a, b) ==
    IF a.neg # b.neg THEN (IF a.neg THEN -1 ELSE 1)
    ELSE IF a.neg THEN MagCmp(b.mag, a.mag)
    ELSE MagCmp(a.mag, b.mag)

(***************************************************************************)
(* The native integer types: T::Native of Int8Type .. UInt64Type.          *)
(***************************************************************************)
\* the number of bits of T::Native
Width(T) ==
    CASE T \in {"Int8", "UInt8"} -> 8
      [] T \in {"Int16", "UInt16"} -> 16
      [] T \in {"Int32", "UInt32"} -> 32
      [] T \in {"Int64", "UInt64"} -> 64

\* T::Native::min_value()
MinValue(T) ==
    IF T \in SignedTypes THEN ZMake(TRUE, Pow2(Width(T) - 1)) ELSE Z(0)

\* T::Native::max_value()
MaxValue(T) ==
    IF T \in SignedTypes THEN ZMake(FALSE, MagSub(Pow2(Width(T) - 1), <<1>>))
    ELSE ZMake(FALSE, MagSub(Pow2(Width(T)), <<1>>))

\* whether the exact result r is a value of T: MinValue(T) <= r <= MaxValue(T)
Fits(T, r) ==
    IF T \in UnsignedTypes THEN ~r.neg /\ BitLen(r.mag) <= Width(T)
    ELSE \/ BitLen(r.mag) < Width(T)
         \/ r.neg /\ r.mag = Pow2(Width(T) - 1)

\* two's complement wrap-around of the exact result r to the width of T
Wrap(T, r) ==
    LET low == LowBits(r.mag, Width(T))
        u == IF r.neg /\ low # <<>> THEN MagSub(Pow2(Width(T)), low) ELSE low
    IN  IF T \in SignedTypes /\ BitLen(u) = Width(T)
        THEN ZMake(TRUE, MagSub(Pow2(Width(T)), u))
        ELSE ZMake(FALSE, u)

\* the panic of an operator whose result is no value of the type
Overflow(OP) ==
    CASE OP = "add" -> Panic("attempt to add with overflow")
      [] OP = "subtract" -> Panic("attempt to subtract with overflow")
      [] OP = "multiply" -> Panic("attempt to multiply with overflow")
      [] OP = "divide" -> Panic("attempt to divide with overflow")

\* the native +, -, * of T with the exact result r: r when it fits; on overflow
\* a panic in a build with overflow checks and the wrapped value without
Native(T, OP, r) ==
    IF Fits(T, r) THEN Ok(r)
    ELSE IF overflow_checks THEN Overflow(OP)
    ELSE Ok(Wrap(T, r))

\* a / b for b # 0: MIN / -1 of a signed integer panics in every build
NativeDivide(T, a, b) ==
    IF T \in SignedTypes /\ b = Z(-1) /\ a = MinValue(T)
    THEN Overflow("divide")
    ELSE Ok(ZTruncDiv(a, b))

(***************************************************************************)
(* The native float types: f32 and f64.  A value is a NaN, an infinity or  *)
(* (-1)^neg * mag * 2^exp with mag odd (or zero, with its sign); every     *)
(* operator rounds its exact result to the nearest value of the type, ties *)
(* to the even one.                                                        *)
(***************************************************************************)
\* the number of bits of the significand
Precision(T) == IF T = "Float32" THEN 24 ELSE 53

\* the exponent of the lowest bit of the smallest subnormal value
MinExponent(T) == IF T = "Float32" THEN -149 ELSE -1074

\* every finite value is below 2^MaxExponent(T)
MaxExponent(T) == IF T = "Float32" THEN 128 ELSE 1024

Zero(neg) == [cls |-> "finite", neg |-> neg, mag |-> <<>>, exp |-> 0]

Infinity(neg) == [cls |-> "inf", neg |-> neg, mag |-> <<>>, exp |-> 0]

NaN == [cls |-> "nan", neg |-> FALSE, mag |-> <<>>, exp |-> 0]

\* the value (-1)^neg * mag * 2^exp for mag # 0, with mag made odd
Finite(neg, mag, exp) ==
    LET z == TrailingZeros(mag)
    IN  [cls |-> "finite", neg |-> neg, mag |-> ShiftRight(mag, z), exp |-> exp + z]

\* the value of T nearest to (-1)^neg * mag * 2^exp
Round(T, neg, mag, exp) ==
    IF mag = <<>> THEN Zero(neg) ELSE
    LET lsb == Max(exp, Max(BitLen(mag) + exp - Precision(T), MinExponent(T)))
        shift == lsb - exp
        q == ShiftRight(mag, shift)
        up == /\ shift > 0
              /\ Bit(mag, shift - 1) = 1
              /\ LowBitsSet(mag, shift - 1) \/ Bit(q, 0) = 1
        r == IF up THEN MagAdd(q, <<1>>) ELSE q
    IN  IF r = <<>> THEN Zero(neg)
        ELSE IF BitLen(r) + lsb > MaxExponent(T) THEN Infinity(neg)
        ELSE Finite(neg, r, lsb)

\* the value of T nearest to the integer n
Float(T, n) == Round(T, Z(n).neg, Z(n).mag, 0)

IsZero(x) == x.cls = "finite" /\ x.mag = <<>>

FNeg(x) == IF x.cls = "nan" THEN x ELSE [x EXCEPT !.neg = ~x.neg]

\* a + b
FAdd(T, a, b) ==
    IF a.cls = "nan" \/ b.cls = "nan" THEN NaN
    ELSE IF a.cls = "inf"
    THEN IF b.cls = "inf" /\ a.neg # b.neg THEN NaN ELSE a
    ELSE IF b.cls = "inf" THEN b
    ELSE IF IsZero(a) /\ IsZero(b) THEN Zero(a.neg /\ b.neg)
    ELSE IF IsZero(a) THEN b
    ELSE IF IsZero(b) THEN a
    ELSE LET e == IF a.exp <= b.exp THEN a.exp ELSE b.exp
             s == ZAdd(ZMake(a.neg, ShiftLeft(a.mag, a.exp - e)),
                       ZMake(b.neg, ShiftLeft(b.mag, b.exp - e)))
         IN  Round(T, s.neg, s.mag, e)

\* a - b
FSub(T, a, b) == FAdd(T, a, FNeg(b))

\* a * b
FMul(T, a, b) ==
    IF a.cls = "nan" \/ b.cls = "nan" THEN NaN
    ELSE IF a.cls = "inf" \/ b.cls = "inf"
    THEN IF IsZero(a) \/ IsZero(b) THEN NaN ELSE Infinity(a.neg # b.neg)
    ELSE Round(T, a.neg # b.neg, MagMul(a.mag, b.mag), a.exp + b.exp)

\* a / b: the quotient is taken to two bits more than the significand holds,
\* and a last bit records whether the division left a remainder
FDiv(T, a, b) ==
    IF a.cls = "nan" \/ b.cls = "nan" THEN NaN
    ELSE IF a.cls = "inf"
    THEN IF b.cls = "inf" THEN NaN ELSE Infinity(a.neg # b.neg)
    ELSE IF b.cls = "inf" THEN Zero(a.neg # b.neg)
    ELSE IF IsZero(b)
    THEN IF IsZero(a) THEN NaN ELSE Infinity(a.neg # b.neg)
    ELSE IF IsZero(a) THEN Zero(a.neg # b.neg)
    ELSE LET s == Max(0, Precision(T) + 2 + BitLen(b.mag) - BitLen(a.mag))
             qr == MagDivMod(ShiftLeft(a.mag, s), b.mag)
             sticky == IF qr[2] = <<>> THEN 0 ELSE 1
         IN  Round(T, a.neg # b.neg, MulDigitFrom(qr[1], 2, 1, sticky),
                   a.exp - b.exp - s - 1)

\* a == b: a NaN equals nothing, and the two zeros are equal
FEq(a, b) ==
    /\ a.cls # "nan"
    /\ b.cls # "nan"
    /\ (IsZero(a) /\ IsZero(b)) \/ a = b

\* |a| < |b| for finite non-zero a and b
MagnitudeLess(a, b) ==
    IF BitLen(a.mag) + a.exp # BitLen(b.mag) + b.exp
    THEN BitLen(a.mag) + a.exp < BitLen(b.mag) + b.exp
    ELSE LET e == IF a.exp <= b.exp THEN a.exp ELSE b.exp
         IN  MagCmp(ShiftLeft(a.mag, a.exp - e), ShiftLeft(b.mag, b.exp - e)) < 0

\* 0 <= a < b, or a < b <= 0 with the signs dropped
AbsLess(a, b) ==
    IF a.cls = "inf" THEN FALSE
    ELSE IF b.cls = "inf" THEN TRUE
    ELSE IF IsZero(b) THEN FALSE
    ELSE IF IsZero(a) THEN TRUE
    ELSE MagnitudeLess(a, b)

\* a < b: nothing is below or above a NaN
FLess(a, b) ==
    /\ a.cls # "nan"
    /\ b.cls # "nan"
    /\ ~(IsZero(a) /\ IsZero(b))
    /\ IF a.neg # b.neg THEN a.neg
       ELSE IF a.neg THEN AbsLess(b, a)
       ELSE AbsLess(a, b)

(***************************************************************************)
(* The kernels of arrow::array_ops.                                        *)
(***************************************************************************)
\* array_ops::add, subtract, multiply, divide on one pair of elements
math_element(OP, T, a, b) ==
    IF T \in FloatTypes
    THEN CASE OP = "add" -> Ok(FAdd(T, a, b))
           [] OP = "subtract" -> Ok(FSub(T, a, b))
           [] OP = "multiply" -> Ok(FMul(T, a, b))
           [] OP = "divide" ->
                 IF IsZero(b) THEN ArrowError("DivideByZero")
                 ELSE Ok(FDiv(T, a, b))
    ELSE CASE OP = "add" -> Native(T, "add", ZAdd(a, b))
           [] OP = "subtract" -> Native(T, "subtract", ZSub(a, b))
           [] OP = "multiply" -> Native(T, "multiply", ZMul(a, b))
           [] OP = "divide" ->
                 IF b.mag = <<>> THEN ArrowError("DivideByZero")
                 ELSE NativeDivide(T, a, b)

\* a < b of two elements of T
Less(T, a, b) == IF T \in FloatTypes THEN FLess(a, b) ELSE ZCmp(a, b) < 0

\* a == b of two elements of T
Equal(T, a, b) == IF T \in FloatTypes THEN FEq(a, b) ELSE a = b

\* array_ops::eq, neq, lt, lt_eq, gt, gt_eq on one pair of elements
bool_element(OP, T, a, b) ==
    CASE OP = "eq" -> Equal(T, a, b)
      [] OP = "neq" -> ~Equal(T, a, b)
      [] OP = "lt" -> Less(T, a, b)
      [] OP = "lt_eq" -> Less(T, a, b) \/ Equal(T, a, b)
      [] OP = "gt" -> Less(T, b, a)
      [] OP = "gt_eq" -> Less(T, b, a) \/ Equal(T, a, b)

Min(S) == CHOOSE x \in S : \A y \in S : x <= y

\* array_ops math kernels: the elements in order, stopping at the first failure
math_op(left, right, OP, T) ==
    IF Len(left.values) # Len(right.values)
    THEN ArrowError("ComputeError")
    ELSE LET n == Len(left.values)
             r == [i \in 1..n |-> math_element(OP, T, left.values[i], right.values[i])]
             bad == {i \in 1..n : r[i].tag # "Ok"}
         IN  IF bad = {} THEN Ok(Column(T, [i \in 1..n |-> r[i].val]))
             ELSE r[Min(bad)]

\* array_ops comparison kernels
bool_op(left, right, OP, T) ==
    IF Len(left.values) # Len(right.values)
    THEN ArrowError("ComputeError")
    ELSE Ok(Column("Boolean",
             [i \in 1..Len(left.values) |->
                 bool_element(OP, T, left.values[i], right.values[i])]))

ComparisonKernels == {"eq", "neq", "lt", "lt_eq", "gt", "gt_eq"}

\* binary_op!: downcast both columns to $DT and apply array_ops::$OP
binary_op(left, right, OP, DT) ==
    IF OP \in ComparisonKernels THEN bool_op(left, right, OP, DT)
    ELSE math_op(left, right, OP, DT)

\* the type match of the macro with a mismatched pair computed in the left type
math_ops_promoting(left_values, right_values, OP) ==
    IF left_values.data_type \in NumericTypes
       /\ right_values.data_type \in NumericTypes
    THEN binary_op(left_values, right_values, OP, left_values.data_type)
    ELSE NotImplemented

\* math_ops!: match (left_values.data_type(), right_values.data_type())
math_ops(left_values, right_values, OP) ==
    IF left_values.data_type = right_values.data_type
       /\ left_values.data_type \in NumericTypes
    THEN binary_op(left_values, right_values, OP, left_values.data_type)
    ELSE NotImplemented

\* comparison_ops!: match (left_values.data_type(), right_values.data_type())
comparison_ops(left_values, right_values, OP) ==
    IF left_values.data_type = right_values.data_type
       /\ left_values.data_type \in NumericTypes
    THEN binary_op(left_values, right_values, OP, left_values.data_type)
    ELSE NotImplemented

(***************************************************************************)
(* Calling a closure on a batch (a sequence of columns).                   *)
(***************************************************************************)
RECURSIVE Call(_, _)
Call(f, b) ==
    IF f.fn = "column" THEN Ok(b[f.index + 1]) ELSE
    LET lf == get_func(f.left_expr) IN
    IF lf.tag # "Ok" THEN lf ELSE
    LET left_values == Call(lf.val, b) IN
    IF left_values.tag # "Ok" THEN left_values ELSE
    LET rf == get_func(f.right_expr) IN
    IF rf.tag # "Ok" THEN rf ELSE
    LET right_values == Call(rf.val, b) IN
    IF right_values.tag # "Ok" THEN right_values ELSE
    IF f.fn = "math_ops"
    THEN math_ops(left_values.val, right_values.val, f.OP)
    ELSE comparison_ops(left_values.val, right_values.val, f.OP)

(***************************************************************************)
(* Inputs: logical expressions, schemas and batches.                       *)
(***************************************************************************)
Literal == [kind |-> "Literal"]

Col(i) == [kind |-> "Column", index |-> i]

Cast(e, t) == [kind |-> "Cast", expr |-> e, data_type |-> t]

IsNull(e) == [kind |-> "IsNull", expr |-> e]

Bin(l, op, r) == [kind |-> "BinaryExpr", left |-> l, op |-> op, right |-> r]

Agg(name, args, t) ==
    [kind |-> "AggregateFunction", name |-> name, args |-> args, return_type |-> t]

\* two-column schemas: every type with itself, every numeric type beside
\* another numeric type, and a numeric type beside a type that is not
Schemas ==
    {<<t, t>> : t \in DataType}
    \cup { <<"Int8", "UInt8">>, <<"Int16", "Int32">>, <<"Int64", "UInt64">>,
           <<"UInt16", "Float32">>, <<"UInt32", "Float64">>,
           <<"Int32", "Boolean">>, <<"Utf8", "Int32">> }

\* the schemas aggregate calls are compiled against
AggregateSchemas ==
    { <<"Int32", "Int32">>, <<"Int64", "Utf8">>, <<"Float64", "Int8">> }

Columns == {Col(0), Col(1)}

Names ==
    { Str_min, <<"M", "I", "N">>, <<"M", "a", "x">>, Str_count,
      <<"S", "u", "M">>, Str_avg, <<"A", "V", "G">>,
      <<"m", "e", "d", "i", "a", "n">>, <<>> }

ReturnTypes == {"Int64", "Utf8"}

\* the expressions an aggregate call is given as arguments
ArgExprs ==
    { Col(0), Literal, Bin(Col(0), "Plus", Col(1)),
      Agg(Str_sum, <<Col(0)>>, "Int64") }

ArgLists == UNION {[1..n -> ArgExprs] : n \in 0..MaxArgs}

AggregateExprs ==
    {Agg(n, a, t) : n \in Names, a \in ArgLists, t \in ReturnTypes}

\* one operator over two columns
FlatExprs ==
    { Bin(Col(c[1]), op, Col(c[2])) :
        c \in {<<0, 0>>, <<0, 1>>, <<1, 0>>}, op \in Operator }

\* an operator over the result of another
NestedExprs ==
    { Bin(Bin(Col(0), inner, c), outer, Col(1)) :
        inner \in {"Plus", "Divide", "Lt"},
        c \in Columns,
        outer \in {"Plus", "Divide", "Eq", "Gt", "And"} }
    \cup
    { Bin(Col(0), outer, Bin(Col(1), inner, Col(1))) :
        outer \in {"Minus", "LtEq"}, inner \in {"Multiply", "Divide"} }

\* expressions with a part that does not compile
BrokenExprs ==
    { Literal, IsNull(Col(0)),
      Cast(Col(0), "Int64"), Cast(Literal, "Int64"),
      Cast(Bin(Col(0), "Plus", Col(1)), "Int64"),
      Cast(Agg(Str_sum, <<Col(0)>>, "Int64"), "Int64"),
      Cast(Cast(Col(0), "Int64"), "Int32") }
    \cup
    { Bin(l, op, r) :
        l \in {Col(0), Literal, Cast(IsNull(Col(0)), "Int64"),
               Agg(Str_sum, <<Col(0)>>, "Int64")},
        op \in {"Plus", "Lt", "And", "Or"},
        r \in {Col(1), Literal, Cast(IsNull(Col(1)), "Int64"),
               Agg(Str_min, <<Col(1)>>, "Int64")} }

ScalarExprs == Columns \cup FlatExprs \cup NestedExprs \cup BrokenExprs

\* the (expression, schema) pairs handed to compile_expr
CompileInputs ==
    (ScalarExprs \X Schemas) \cup (AggregateExprs \X AggregateSchemas)

\* the pairs whose evaluator is invoked repeatedly
RepeatInputs ==
    { Col(1), Bin(Col(0), "Plus", Col(1)), Bin(Col(0), "Divide", Col(1)),
      Bin(Col(1), "Lt", Col(0)),
      Bin(Bin(Col(0), "Divide", Col(1)), "Gt", Col(1)) }
    \X { <<"Int8", "Int8">>, <<"UInt16", "UInt16">>, <<"Float64", "Float64">>,
          <<"Int32", "Int64">> }

\* the element values a batch is filled with
Values(T) ==
    CASE T = "Int8" -> {Z(-128), Z(-1)}
      [] T = "Int16" -> {Z(0), Z(32767)}
      [] T = "Int32" -> {Z(0), Z(5)}
      [] T = "Int64" -> {MinValue("Int64"), Z(-1)}
      [] T = "UInt8" -> {Z(0), Z(255)}
      [] T = "UInt16" -> {Z(3), Z(40000)}
      [] T = "UInt32" -> {Z(0), Z(6)}
      [] T = "UInt64" -> {Z(2), MaxValue("UInt64")}
      [] T = "Float32" -> {Float(T, 1), Float(T, 3)}
      [] T = "Float64" -> {Float(T, -3), Float(T, 0)}
      [] T = "Boolean" -> {TRUE, FALSE}
      [] T = "Utf8" -> {"a", "b"}

\* the columns of type T with n rows
ColumnsOf(T, n) == {Column(T, v) : v \in [1..n -> Values(T)]}

\* the batches of a schema with n rows: one column of each field's type
RECURSIVE BatchesOfRows(_, _)
BatchesOfRows(schema, n) ==
    IF schema = <<>> THEN {<<>>}
    ELSE { <<c>> \o rest : c \in ColumnsOf(Head(schema), n),
                           rest \in BatchesOfRows(Tail(schema), n) }

\* the batches of a schema: equal-length columns of the schema's types
Batches(schema) == UNION {BatchesOfRows(schema, n) : n \in 0..MaxRows}

\* the batches an evaluator is invoked on repeatedly
RepeatBatches(schema) ==
    UNION {BatchesOfRows(schema, n) : n \in 0..RepeatRows}

(***************************************************************************)
(* The state machine: a caller compiles an expression, then asks the       *)
(* result for its evaluator, or the execution operator invokes the         *)
(* compiled evaluator once per batch, or the aggregation operator invokes  *)
(* the descriptor's argument evaluator.  A run of Spec is one compilation  *)
(* and the first call after it; a run of SpecRepeat goes on invoking.  A   *)
(* panic ends the run.                                                     *)
(***************************************************************************)
None == [tag |-> "None"]

Aborted ==
    compiled.tag = "Panic" \/ result.tag = "Panic"

Init ==
    /\ overflow_checks \in BOOLEAN
    /\ expr = None
    /\ input_schema = <<>>
    /\ compiled = None
    /\ batch = <<>>
    /\ result = None
    /\ last = "init"

\* compile_expr(ctx, &e, &schema)
Compile(e, schema) ==
    /\ expr' = e
    /\ input_schema' = schema
    /\ compiled' = compile_expr(e, schema)
    /\ batch' = <<>>
    /\ result' = None
    /\ last' = "compile"
    /\ UNCHANGED overflow_checks

\* the evaluator of a compiled scalar expression is called on batch b; the
\* closure is an Rc<Fn(&RecordBatch) -> ..>, which reads what it captured and
\* the batch it borrows
InvokeOn(b) ==
    /\ ~Aborted
    /\ compiled.tag = "Ok"
    /\ compiled.val.variant = "Compiled"
    /\ result' = Call(get_func(compiled.val).val, b)
    /\ batch' = b
    /\ last' = "invoke"
    /\ UNCHANGED <<overflow_checks, expr, input_schema, compiled>>

\* the aggregation operator calls the descriptor's argument evaluator on b
InvokeArgumentOn(b) ==
    /\ ~Aborted
    /\ compiled.tag = "Ok"
    /\ compiled.val.variant = "AggregateFunction"
    /\ LET r == Call(compiled.val.args[1], b) IN
        /\ result' = r
        /\ batch' = b
    /\ last' = "invoke_argument"
    /\ UNCHANGED <<overflow_checks, expr, input_schema, compiled>>

\* a caller asks the compiled expression for its evaluator: get_func returns
\* the closure of a Compiled and panics on a descriptor
GetFunc ==
    /\ compiled.tag = "Ok"
    /\ last = "compile"
    /\ result' = get_func(compiled.val)
    /\ last' = "get_func"
    /\ UNCHANGED <<overflow_checks, expr, input_schema, compiled, batch>>

CompileAny ==
    /\ compiled = None
    /\ \E i \in CompileInputs : Compile(i[1], i[2])

\* the first invocation after the compilation
Invoke ==
    /\ compiled.tag = "Ok"
    /\ last = "compile"
    /\ \E b \in Batches(input_schema) : InvokeOn(b)

InvokeArgument ==
    /\ compiled.tag = "Ok"
    /\ last = "compile"
    /\ \E b \in Batches(input_schema) : InvokeArgumentOn(b)

Next == CompileAny \/ GetFunc \/ Invoke \/ InvokeArgument

Spec == Init /\ [][Next]_vars

(***************************************************************************)
(* Repeated invocation: the evaluator of one compiled expression is called *)
(* on batch after batch.                                                   *)
(***************************************************************************)
CompileForRepeat ==
    /\ compiled = None
    /\ \E i \in RepeatInputs : Compile(i[1], i[2])

InvokeAgain ==
    /\ compiled.tag = "Ok"
    /\ \E b \in RepeatBatches(input_schema) : InvokeOn(b)

NextRepeat == CompileForRepeat \/ InvokeAgain

SpecRepeat == Init /\ [][NextRepeat]_vars

(***************************************************************************)
(* Vocabulary of the properties.                                           *)
(***************************************************************************)
\* every node of an expression, the expression itself included
RECURSIVE SubExprs(_)
SubExprs(e) ==
    {e} \cup
    CASE e.kind = "BinaryExpr" -> SubExprs(e.left) \cup SubExprs(e.right)
      [] e.kind \in {"Cast", "IsNull"} -> SubExprs(e.expr)
      [] e.kind = "AggregateFunction" ->
            UNION {SubExprs(e.args[i]) : i \in DOMAIN e.args}
      [] OTHER -> {}

Compiles(e) == compile_scalar_expr(e, input_schema).tag = "Ok"

StaticType(e) == compile_scalar_expr(e, input_schema).val.t

RecognizedNames == {Str_min, Str_max, Str_count, Str_sum}

KindOfName(l) ==
    CASE l = Str_min -> "Min"
      [] l = Str_max -> "Max"
      [] l = Str_count -> "Count"
      [] l = Str_sum -> "Sum"

IsAggregateCall == last # "init" /\ expr.kind = "AggregateFunction"

IsBinary == last # "init" /\ expr.kind = "BinaryExpr"

\* a binary node over two columns of one numeric type, invoked on a batch
FlatInvoked(ops) ==
    /\ last = "invoke"
    /\ expr.kind = "BinaryExpr"
    /\ expr.op \in ops
    /\ expr.left.kind = "Column"
    /\ expr.right.kind = "Column"
    /\ input_schema[expr.left.index + 1] = input_schema[expr.right.index + 1]
    /\ input_schema[expr.left.index + 1] \in NumericTypes

LeftValues == batch[expr.left.index + 1].values

RightValues == batch[expr.right.index + 1].values

\* a binary node whose operands compile to two different numeric types
MixedNumeric ==
    /\ IsBinary
    /\ expr.op \in ComparisonOperators \cup ArithmeticOperators
    /\ Compiles(expr.left)
    /\ Compiles(expr.right)
    /\ StaticType(expr.left) \in NumericTypes
    /\ StaticType(expr.right) \in NumericTypes
    /\ StaticType(expr.left) # StaticType(expr.right)

\* the native operator of T on one pair of elements: of an integer type the
\* exact result, of a float type the result rounded to the type
Exact(T, op, a, b) ==
    IF T \in FloatTypes
    THEN CASE op = "Plus" -> FAdd(T, a, b)
           [] op = "Minus" -> FSub(T, a, b)
           [] op = "Multiply" -> FMul(T, a, b)
           [] op = "Divide" -> FDiv(T, a, b)
    ELSE CASE op = "Plus" -> ZAdd(a, b)
           [] op = "Minus" -> ZSub(a, b)
           [] op = "Multiply" -> ZMul(a, b)
           [] op = "Divide" -> ZTruncDiv(a, b)

\* the value of the comparison operator on one pair of elements of T
Compare(T, op, a, b) ==
    CASE op = "Eq" -> Equal(T, a, b)
      [] op = "NotEq" -> ~Equal(T, a, b)
      [] op = "Lt" -> Less(T, a, b)
      [] op = "LtEq" -> Less(T, a, b) \/ Equal(T, a, b)
      [] op = "Gt" -> Less(T, b, a)
      [] op = "GtEq" -> Less(T, b, a) \/ Equal(T, a, b)

\* whether the element is a zero of its type
ZeroOf(T, a) == IF T \in FloatTypes THEN IsZero(a) ELSE a = Z(0)

\* whether the native operator of T has a value on (a, b): a float operator
\* always has one; an integer operator has none when it divides by zero, and
\* none on overflow unless the build wraps around
NativeHasValue(T, op, a, b) ==
    IF T \in FloatTypes THEN TRUE
    ELSE IF op = "Divide" /\ ZeroOf(T, b) THEN FALSE
    ELSE \/ Fits(T, Exact(T, op, a, b))
         \/ ~overflow_checks /\ op # "Divide"

\* that value
NativeValue(T, op, a, b) ==
    LET x == Exact(T, op, a, b)
    IN  IF T \in FloatTypes \/ Fits(T, x) THEN x ELSE Wrap(T, x)

ZeroDivisor ==
    /\ expr.op = "Divide"
    /\ \E k \in DOMAIN RightValues :
          ZeroOf(input_schema[expr.right.index + 1], RightValues[k])

\* no element divides by zero and every element's result is a value of T
CleanArithmetic(T) ==
    /\ ~ZeroDivisor
    /\ T \in FloatTypes
         \/ \A k \in DOMAIN LeftValues :
                Fits(T, Exact(T, expr.op, LeftValues[k], RightValues[k]))

(***************************************************************************)
(* C1.  compile_expr on an AggregateFunction node with zero or with two or *)
(* more arguments returns a General error to its caller.                   *)
(* The code asserts the count instead: the call panics.                    *)
(***************************************************************************)
C1_WrongArgumentCountIsGeneralError ==
    (IsAggregateCall /\ Len(expr.args) # 1)
        => (compiled.tag = "Err" /\ compiled.err = "General")

(***************************************************************************)
(* C2.  compile_expr on an AggregateFunction node whose lower-cased name   *)
(* is not min, max, count or sum (avg included) never returns: there is no *)
(* descriptor, no descriptor of any call has the kind Avg, and nothing is  *)
(* left to fail at evaluation.                                             *)
(***************************************************************************)
C2_UnknownNameFailsAtCompileTime ==
    /\ (IsAggregateCall /\ to_lowercase(expr.name) \notin RecognizedNames)
          => (compiled.tag # "Ok" /\ result = None)
    /\ (compiled.tag = "Ok" /\ compiled.val.variant = "AggregateFunction")
          => compiled.val.f # "Avg"

C2_Witness ==
    /\ last = "compile"
    /\ expr.kind = "AggregateFunction"
    /\ expr.name = <<"A", "V", "G">>
    /\ expr.args = <<Col(0)>>
    /\ compiled = Panic("unimplemented")

(***************************************************************************)
(* C3.  compile_expr on an AggregateFunction node with exactly one         *)
(* argument that compiles on the scalar path and a name that is min, max,  *)
(* count or sum in any letter case returns the descriptor of the matching  *)
(* kind, holding exactly the evaluator of the compiled argument, with the  *)
(* declared return_type as its type, whatever the argument's type is.      *)
(***************************************************************************)
C3_RecognizedAggregateCompiles ==
    (/\ IsAggregateCall
     /\ Len(expr.args) = 1
     /\ to_lowercase(expr.name) \in RecognizedNames
     /\ Compiles(expr.args[1]))
        => /\ compiled.tag = "Ok"
           /\ compiled.val.variant = "AggregateFunction"
           /\ compiled.val.f = KindOfName(to_lowercase(expr.name))
           /\ compiled.val.args
                = <<compile_scalar_expr(expr.args[1], input_schema).val.f>>
           /\ compiled.val.t = expr.return_type

C3_Witness ==
    /\ last = "invoke_argument"
    /\ expr = Agg(<<"S", "u", "M">>, <<Col(0)>>, "Utf8")
    /\ input_schema = <<"Int32", "Int32">>
    /\ compiled = Ok(AggregateFunction("Sum", <<ColumnClosure(0)>>, "Utf8"))
    /\ result = Ok(batch[1])
    /\ Len(batch[1].values) = 2

(***************************************************************************)
(* C4, as claimed.  A BinaryExpr with an implemented operator whose        *)
(* operands compile to two different numeric types compiles, and every     *)
(* invocation of its evaluator that returns to its caller fails with       *)
(* NotImplemented.                                                         *)
(***************************************************************************)
C4_MixedTypesFailNotImplemented ==
    MixedNumeric
        => /\ compiled.tag = "Ok"
           /\ compiled.val.variant = "Compiled"
           /\ (last = "invoke" /\ result.tag # "Panic")
                => result = NotImplemented

(***************************************************************************)
(* C4, amended.  Such a node compiles, and every invocation fails without  *)
(* producing a column.  The failure is NotImplemented whenever both        *)
(* operands evaluate; when the evaluation of an operand fails first (a     *)
(* nested division by zero or an overflow panic), the invocation fails     *)
(* with that operand's failure, the left operand's first.                  *)
(***************************************************************************)
C4_MixedTypesFail ==
    MixedNumeric
        => /\ compiled.tag = "Ok"
           /\ compiled.val.variant = "Compiled"
           /\ last = "invoke" =>
                LET l == Call(compile_scalar_expr(expr.left, input_schema).val.f, batch)
                    r == Call(compile_scalar_expr(expr.right, input_schema).val.f, batch)
                IN  /\ result.tag # "Ok"
                    /\ result = IF l.tag # "Ok" THEN l
                                ELSE IF r.tag # "Ok" THEN r
                                ELSE NotImplemented

C4_Witness ==
    /\ last = "invoke"
    /\ expr = Bin(Col(0), "Plus", Col(1))
    /\ input_schema = <<"Int16", "Int32">>
    /\ Len(batch[1].values) = 2
    /\ compiled.tag = "Ok"
    /\ result = NotImplemented

(***************************************************************************)
(* C5, as claimed.  Compiling a BinaryExpr whose operator is And or Or     *)
(* fails with NotImplemented, whatever the operands are.                   *)
(***************************************************************************)
C5_LogicalOperatorIsNotImplemented ==
    (IsBinary /\ expr.op \in {"And", "Or"}) => compiled = NotImplemented

(***************************************************************************)
(* C5, amended.  Compiling a BinaryExpr whose operator is And or Or fails  *)
(* with an error value and never returns a Scalar evaluator.  The error is *)
(* NotImplemented whenever both operands compile; an operand that fails to *)
(* compile is reported first, with its own error, which is General for a   *)
(* Cast that wraps an unsupported shape.                                   *)
(***************************************************************************)
C5_LogicalOperatorFails ==
    (IsBinary /\ expr.op \in {"And", "Or"})
        => LET l == compile_scalar_expr(expr.left, input_schema)
               r == compile_scalar_expr(expr.right, input_schema)
           IN  /\ compiled.tag = "Err"
               /\ result = None
               /\ compiled = IF l.tag # "Ok" THEN l
                             ELSE IF r.tag # "Ok" THEN r
                             ELSE NotImplemented

C5_Witness ==
    /\ last = "compile"
    /\ expr = Bin(Col(0), "And", Col(1))
    /\ input_schema = <<"Boolean", "Boolean">>
    /\ compiled = NotImplemented

(***************************************************************************)
(* C6.  Whenever the evaluator of a successfully compiled scalar           *)
(* expression returns a column on a batch of the schema, the column's data *)
(* type is the static type stored beside the evaluator: the field's type   *)
(* for Column(i), Boolean for a comparison, the left operand's static type *)
(* for an arithmetic operator; the same holds of every compiled            *)
(* sub-expression.                                                         *)
(***************************************************************************)
C6_StaticTypeIsRuntimeType ==
    last \in {"invoke", "invoke_argument"}
        => \A e \in SubExprs(expr) :
              LET c == compile_scalar_expr(e, input_schema) IN
              c.tag = "Ok" =>
                /\ c.val.variant = "Compiled"
                /\ c.val.t =
                     CASE e.kind = "Column" -> input_schema[e.index + 1]
                       [] e.op \in ComparisonOperators -> "Boolean"
                       [] OTHER -> StaticType(e.left)
                /\ LET r == Call(c.val.f, batch) IN
                   r.tag = "Ok" => r.val.data_type = c.val.t

C6_Witness ==
    /\ last = "invoke"
    /\ expr = Bin(Bin(Col(0), "Plus", Col(1)), "Gt", Col(1))
    /\ input_schema = <<"Int32", "Int32">>
    /\ compiled.tag = "Ok"
    /\ compiled.val.t = "Boolean"
    /\ result = Ok(Column("Boolean", <<TRUE, FALSE>>))

(***************************************************************************)
(* C7, as claimed.  For every numeric type T and arithmetic operator, the  *)
(* evaluator of the compiled BinaryExpr over two equal-length columns of T *)
(* returns a column of T of the same length whose i-th element is the      *)
(* native operator's value on the i-th elements, wherever the native       *)
(* operator has a value on every pair of elements.                         *)
(***************************************************************************)
C7_ArithmeticIsPointwise ==
    (/\ FlatInvoked(ArithmeticOperators)
     /\ \A k \in DOMAIN LeftValues :
           NativeHasValue(input_schema[expr.left.index + 1], expr.op,
                          LeftValues[k], RightValues[k]))
        => /\ result.tag = "Ok"
           /\ result.val.data_type = input_schema[expr.left.index + 1]
           /\ Len(result.val.values) = Len(LeftValues)
           /\ \A k \in DOMAIN LeftValues :
                 result.val.values[k]
                    = NativeValue(input_schema[expr.left.index + 1], expr.op,
                                  LeftValues[k], RightValues[k])

(***************************************************************************)
(* C7, amended.  The same, provided no right element is zero under Divide  *)
(* and no element's result overflows T.  A zero divisor makes the          *)
(* evaluation fail and return no column.  An overflowing element either    *)
(* aborts the evaluation or, in a build without overflow checks, is        *)
(* wrapped around to the width of T.                                       *)
(***************************************************************************)
C7_ArithmeticIsPointwiseUnlessZeroOrOverflow ==
    FlatInvoked(ArithmeticOperators)
        => LET T == input_schema[expr.left.index + 1] IN
           /\ CleanArithmetic(T) =>
                result = Ok(Column(T, [k \in DOMAIN LeftValues |->
                              Exact(T, expr.op, LeftValues[k], RightValues[k])]))
           /\ ZeroDivisor => result.tag # "Ok"
           /\ (~ZeroDivisor /\ ~CleanArithmetic(T))
                => IF overflow_checks \/ expr.op = "Divide"
                   THEN result.tag = "Panic"
                   ELSE result = Ok(Column(T, [k \in DOMAIN LeftValues |->
                            NativeValue(T, expr.op, LeftValues[k], RightValues[k])]))
           /\ result.tag = "Ok" =>
                /\ result.val.data_type = T
                /\ Len(result.val.values) = Len(LeftValues)
                /\ \A k \in DOMAIN LeftValues :
                     LET x == Exact(T, expr.op, LeftValues[k], RightValues[k]) IN
                     \/ result.val.values[k] = x
                     \/ /\ ~overflow_checks
                        /\ T \notin FloatTypes
                        /\ ~Fits(T, x)
                        /\ result.val.values[k] = Wrap(T, x)

C7_Witness ==
    /\ last = "invoke"
    /\ expr = Bin(Col(0), "Minus", Col(1))
    /\ input_schema = <<"Int32", "Int32">>
    /\ batch = <<Column("Int32", <<Z(5), Z(0)>>), Column("Int32", <<Z(5), Z(5)>>)>>
    /\ result = Ok(Column("Int32", <<Z(0), Z(-5)>>))

(***************************************************************************)
(* C8.  For every numeric type T and comparison operator, the evaluator of *)
(* the compiled BinaryExpr over two equal-length columns a and b of T      *)
(* returns a Boolean column of the same length whose i-th element is       *)
(* a[i] op b[i], each operator with its own kernel.                        *)
(***************************************************************************)
C8_ComparisonIsPointwise ==
    FlatInvoked(ComparisonOperators)
        => result = Ok(Column("Boolean", [k \in DOMAIN LeftValues |->
                          Compare(input_schema[expr.left.index + 1], expr.op,
                                  LeftValues[k], RightValues[k])]))

C8_Witness ==
    /\ last = "invoke"
    /\ expr = Bin(Col(0), "Gt", Col(1))
    /\ input_schema = <<"Int32", "Int32">>
    /\ batch = <<Column("Int32", <<Z(5), Z(5)>>), Column("Int32", <<Z(0), Z(5)>>)>>
    /\ result = Ok(Column("Boolean", <<TRUE, FALSE>>))

(***************************************************************************)
(* C10.  The abort of get_func on an AggregateFunction descriptor is never *)
(* reached from the compiler or from an evaluator: compile_scalar_expr     *)
(* returns no descriptor for any node (it answers an AggregateFunction     *)
(* node with NotImplemented), so neither a compilation nor an invocation   *)
(* ends in that abort.  Only a caller that asks a descriptor for its       *)
(* evaluator reaches it.                                                   *)
(***************************************************************************)
C10_GetFuncAbortUnreachable ==
    last # "init"
        => /\ \A e \in SubExprs(expr) :
                LET c == compile_scalar_expr(e, input_schema) IN
                /\ c.tag = "Ok" => c.val.variant = "Compiled"
                /\ e.kind = "AggregateFunction" => c = NotImplemented
           /\ compiled # Panic("get_func")
           /\ result = Panic("get_func")
                => /\ last = "get_func"
                   /\ compiled.val.variant = "AggregateFunction"

C10_Witness ==
    /\ last = "compile"
    /\ expr = Agg(Str_min, <<Agg(Str_sum, <<Col(0)>>, "Int64")>>, "Int64")
    /\ compiled = NotImplemented

====
